---- MODULE Spec2Model ----
(***************************************************************************)
(* Worker liveness / readiness supervision of the claude-mem client:       *)
(*   src/src/shared/worker-utils.ts   ensureWorkerRunning and its helpers  *)
(*   src/unnamed/part_000             HealthMonitor (waitForHealth,        *)
(*                                    waitForPortFree, httpShutdown,       *)
(*                                    checkVersionMatch)                   *)
(*   src/src/cli/handlers/observation.ts   observationHandler.execute      *)
(*   src/unnamed/part_001                  summarizeHandler.execute        *)
(*                                                                         *)
(* One call runs at a time (a single logical timeline per process).  Every *)
(* await on the network is a step of its own: the request is issued by the *)
(* step that reaches it and settled by the next step, whose parameters are *)
(* what the worker did.  A request without timeout that never settles     *)
(* leaves the call at pc = "hung", where no step of it is possible.        *)
(***************************************************************************)
EXTENDS Integers, Sequences, FiniteSets, TLC

VARIABLES
    op,            \* the exported operation being executed, "idle" if none
    pc,            \* position inside the operation
    manifest,      \* version field of the installed package.json, or MISSING
    i,             \* ensureWorkerRunning: loop counter
    nProbes,       \* probes settled by the running call
    firstOk,       \* index (from 1) of the first probe answered ok, 0 if none
    firstFree,     \* index (from 1) of the first probe not answered ok, 0 if none
    caught,        \* ensureWorkerRunning: its catch block has run
    ewrResult,     \* value returned by ensureWorkerRunning, "none" before
    timeoutMs,     \* waitForHealth / waitForPortFree: the timeoutMs argument
    elapsed,       \* Date.now() - start
    lastResp,      \* how the last settled request ended
    hasToolName,   \* input.toolName is truthy
    hasCwd,        \* input.cwd is truthy
    hasTranscript, \* input.transcriptPath is truthy
    posted,        \* the handler issued its business POST
    vcPlugin,      \* checkVersionMatch: pluginVersion of the result
    vcWorker,      \* checkVersionMatch: workerVersion of the result
    reported,      \* version string in the worker's /api/version body
    result,        \* how the operation ended, "none" while it runs
    envUrl,        \* process.env.CLAUDE_MEM_WORKER_URL
    cfgHost,       \* CLAUDE_MEM_WORKER_HOST of settings.json
    cfgPort,       \* CLAUDE_MEM_WORKER_PORT of settings.json
    cfgGen,        \* number of times settings.json was rewritten
    cachedHost,    \* worker-utils.ts cachedHost
    cachedPort,    \* worker-utils.ts cachedPort
    hostRead,      \* cfgHost as it was at the first getWorkerHost since the last clear
    portRead,      \* cfgPort as it was at the first getWorkerPort since the last clear
    hostGen,       \* cfgGen at the settings read that filled cachedHost, -1 if none
    portGen,       \* cfgGen at the settings read that filled cachedPort, -1 if none
    lastGot,       \* value returned by the last resolver call made from outside
    sent,          \* requests issued by the running call, each with its target
    lingering,     \* requests of the running loop abandoned by a timeout, still open
    nTimedOut,     \* probes of the running loop that ended by the per-call timeout
    listening      \* waitForPortFree: the worker held the port at the last probe

vars == << op, pc, manifest, i, nProbes, firstOk, firstFree, caught, ewrResult,
           timeoutMs, elapsed, lastResp, hasToolName, hasCwd, hasTranscript,
           posted, vcPlugin, vcWorker, reported, result, envUrl, cfgHost, cfgPort,
           cfgGen, cachedHost, cachedPort, hostRead, portRead, hostGen, portGen,
           lastGot, sent, lingering, nTimedOut, listening >>

\* the state of the calls of ensureWorkerRunning, part_000 and the handlers
callVars == << op, pc, manifest, i, nProbes, firstOk, firstFree, caught, ewrResult,
               timeoutMs, elapsed, lastResp, hasToolName, hasCwd, hasTranscript,
               posted, vcPlugin, vcWorker, reported, result, sent, lingering,
               nTimedOut, listening >>

(***************************************************************************)
(* Bounds of the model.                                                    *)
(***************************************************************************)
\* timeoutMs arguments are 0, 500, ..., MaxTimeoutSteps * 500
MaxTimeoutSteps == 3
\* a setTimeout(r, 500) fires 0 .. MaxLateSteps * 500 ms late
MaxLateSteps == 1
\* settings.json is rewritten at most MaxSettingsUpdates times
MaxSettingsUpdates == 2

(***************************************************************************)
(* Program constants.                                                      *)
(***************************************************************************)
maxRetries == 15
pollInterval == 200
FETCH_TIMEOUT_MS == 3000
WaitPollMs == 500

(***************************************************************************)
(* Values.                                                                 *)
(***************************************************************************)
\* JavaScript null and undefined, and a package.json that cannot be read or parsed
NULL == "<null>"
UNDEFINED == "<undefined>"
MISSING == "<missing>"
\* version strings; the empty string is a string like any other
Versions == {"", "1.0.0", "1.0.1"}
\* the JSON body of /api/version: unparseable, without a version field, or with one
BADJSON == "<badjson>"
Bodies == Versions \cup {UNDEFINED, BADJSON}

\* a timeoutMs that outlasts one per-call timeout and the sleep after it
LongTimeoutMs == FETCH_TIMEOUT_MS + 2 * WaitPollMs
Timeouts == { k * WaitPollMs : k \in 0..MaxTimeoutSteps } \cup {LongTimeoutMs}
SleepTimes == { WaitPollMs + k * WaitPollMs : k \in 0..MaxLateSteps }

\* JavaScript truthiness of a string | null | undefined
Truthy(v) == v \notin {NULL, UNDEFINED, ""}

\* fetch(url): resolves with a response (ok or not) or rejects
FetchOutcomes == {"ok", "notok", "reject"}

\* fetchWithTimeout(url, timeoutMs, options): a response, or none on timeout and
\* on transport errors of read-only checks; a call with options may also throw
FetchWithTimeoutOutcomes(readOnly) ==
    IF readOnly THEN {"ok", "notok", "none"} ELSE {"ok", "notok", "none", "throw"}

\* SettingsDefaultsManager.loadFromFile(settingsPath), read by getWorkerPort and
\* getWorkerHost: it hands back the settings, strings all of them, and reports no
\* error
SettingsReadOutcomes == {"settings"}

\* maxRetries * pollInterval, the timeoutMs ensureWorkerRunning logs
EnsureBudgetMs == maxRetries * pollInterval

\* time a fetch(url) without timeout takes to settle: none, or as long as the
\* worker likes, here the whole budget
PlainFetchTimes == {0, EnsureBudgetMs}

\* ensureWorkerRunning reads no clock; its elapsed time is followed up to the
\* budget and no further
EnsureClock(t) == IF t > EnsureBudgetMs THEN EnsureBudgetMs ELSE t

\* time a fetchWithTimeout(url, FETCH_TIMEOUT_MS) takes to settle with `resp`
FetchTimes(resp) ==
    IF resp = "none" THEN {0, FETCH_TIMEOUT_MS} ELSE {0, WaitPollMs}


(***************************************************************************)
(* Endpoint resolution  (worker-utils.ts 15-98)                            *)
(***************************************************************************)
NaN == "NaN"
Hosts == {"127.0.0.1", "0.0.0.0"}
PortStrings == {"37777", "8080x", "abc"}
EnvUrls == {UNDEFINED, "  ", "http://remote:37777/"}
\* the port argument the callers of part_000 pass
PortArg == "37777"

\* parseInt(s, 10): the leading digits, NaN when there are none
parseInt(s) ==
    CASE s = "37777" -> "37777"
      [] s = "8080x" -> "8080"
      [] s = "abc"   -> NaN

\* String.prototype.trim
trim(s) == IF s = "  " THEN "" ELSE s

\* envUrl.replace(/\/+$/, '')
stripTrailingSlashes(s) ==
    IF s = "http://remote:37777/" THEN "http://remote:37777" ELSE s

\* getWorkerPort: the value it returns, which is also cachedPort afterwards
getWorkerPort(cached, settingsPort) ==
    IF cached # NULL THEN cached ELSE parseInt(settingsPort)

\* getWorkerHost: the value it returns, which is also cachedHost afterwards
getWorkerHost(cached, settingsHost) ==
    IF cached # NULL THEN cached ELSE settingsHost

getWorkerConnectHost(bindHost) ==
    IF bindHost = "0.0.0.0" THEN "127.0.0.1" ELSE bindHost

\* envUrl && envUrl.trim() !== ''
envOverrides(env) == env # UNDEFINED /\ env # "" /\ trim(env) # ""

\* a base address: the override, or http://host:port
Override(env) == [url |-> stripTrailingSlashes(env), host |-> "", port |-> ""]
Composed(host, port) == [url |-> "", host |-> host, port |-> port]

getWorkerUrl(env, bindHost, port) ==
    IF envOverrides(env) THEN Override(env)
    ELSE Composed(getWorkerConnectHost(bindHost), port)

\* what getWorkerUrl() returns in the current state
WorkerUrl ==
    getWorkerUrl(envUrl, getWorkerHost(cachedHost, cfgHost),
                 getWorkerPort(cachedPort, cfgPort))

\* http://${getWorkerConnectHost()}:${port} of part_000
HostPortUrl ==
    Composed(getWorkerConnectHost(getWorkerHost(cachedHost, cfgHost)), PortArg)

Req(path, base) == [path |-> path, base |-> base]

\* a call of getWorkerHost: the cache, and the record of what was read when
ReadsHost ==
    /\ cachedHost' = getWorkerHost(cachedHost, cfgHost)
    /\ hostGen' = IF cachedHost = NULL THEN cfgGen ELSE hostGen
    /\ hostRead' = IF hostRead = NULL THEN cfgHost ELSE hostRead

\* a call of getWorkerPort
ReadsPort ==
    /\ cachedPort' = getWorkerPort(cachedPort, cfgPort)
    /\ portGen' = IF cachedPort = NULL THEN cfgGen ELSE portGen
    /\ portRead' = IF portRead = NULL THEN cfgPort ELSE portRead

KeepsHost == UNCHANGED << cachedHost, hostGen, hostRead >>
KeepsPort == UNCHANGED << cachedPort, portGen, portRead >>

\* the resolver calls a step makes: none, getWorkerConnectHost(), or getWorkerUrl(),
\* which reads host and port only without the override
Resolves(kind) ==
    CASE kind = "none" -> KeepsHost /\ KeepsPort
      [] kind = "host" -> ReadsHost /\ KeepsPort
      [] kind = "url"  -> IF envOverrides(envUrl)
                            THEN KeepsHost /\ KeepsPort
                            ELSE ReadsHost /\ ReadsPort

\* a step of a call: its resolver calls and the requests it issues
Env(kind, reqs) ==
    /\ Resolves(kind)
    /\ sent' = sent \cup reqs
    /\ UNCHANGED << envUrl, cfgHost, cfgPort, cfgGen, lastGot, lingering, nTimedOut,
                    listening >>

\* the first step of a call
EnvFresh(kind, reqs) ==
    /\ Resolves(kind)
    /\ sent' = reqs
    /\ lingering' = 0
    /\ nTimedOut' = 0
    /\ listening' = FALSE
    /\ UNCHANGED << envUrl, cfgHost, cfgPort, cfgGen, lastGot >>

\* how the race inside a fetchWithTimeout that gave `resp` after `took` ms ended
RaceOutcome(resp, took) ==
    IF resp = "none" /\ took = FETCH_TIMEOUT_MS THEN "timeout" ELSE resp

\* Promise.race([fetch(..), timeoutPromise]): the race settles with the timer and
\* nothing aborts the fetch, which stays in flight; a fetch that settled is over
raceAbandons_always(outcome) == TRUE

raceAbandons(outcome) == outcome = "timeout"

\* what a settled race leaves behind
AfterRace(outcome, stillListening) ==
    /\ Resolves("none")
    /\ sent' = sent
    /\ nTimedOut' = nTimedOut + IF outcome = "timeout" THEN 1 ELSE 0
    /\ lingering' = lingering + IF raceAbandons(outcome) THEN 1 ELSE 0
    /\ listening' = stillListening
    /\ UNCHANGED << envUrl, cfgHost, cfgPort, cfgGen, lastGot >>

TypeOK ==
    /\ op \in {"idle", "ensureWorkerRunning", "waitForHealth", "waitForPortFree",
               "httpShutdown", "checkVersionMatch", "observationHandler",
               "summarizeHandler"}
    /\ manifest \in Versions \cup {MISSING}
    /\ i \in 0..maxRetries
    /\ nProbes \in Nat /\ firstOk \in 0..nProbes /\ firstFree \in 0..nProbes
    /\ caught \in BOOLEAN
    /\ ewrResult \in {"none", "true", "false", "raised"}
    /\ timeoutMs \in Timeouts
    /\ elapsed \in Nat
    /\ posted \in BOOLEAN
    /\ result \in {"none", "true", "false", "raised", "continue"}
    /\ envUrl \in EnvUrls /\ cfgHost \in Hosts /\ cfgPort \in PortStrings
    /\ cfgGen \in Nat
    /\ cachedHost \in Hosts \cup {NULL}
    /\ cachedPort \in {parseInt(p) : p \in PortStrings} \cup {NULL}
    /\ hostGen \in -1..cfgGen /\ portGen \in -1..cfgGen
    /\ lingering \in Nat /\ nTimedOut \in Nat /\ listening \in BOOLEAN

Init ==
    /\ op = "idle"
    /\ pc = "idle"
    /\ manifest \in Versions \cup {MISSING}
    /\ i = 0
    /\ nProbes = 0
    /\ firstOk = 0
    /\ firstFree = 0
    /\ caught = FALSE
    /\ ewrResult = "none"
    /\ timeoutMs = 0
    /\ elapsed = 0
    /\ lastResp = "none"
    /\ hasToolName = FALSE
    /\ hasCwd = FALSE
    /\ hasTranscript = FALSE
    /\ posted = FALSE
    /\ vcPlugin = NULL
    /\ vcWorker = NULL
    /\ reported = NULL
    /\ result = "none"
    /\ envUrl \in EnvUrls
    /\ cfgHost \in Hosts
    /\ cfgPort \in PortStrings
    /\ cfgGen = 0
    /\ cachedHost = NULL
    /\ cachedPort = NULL
    /\ hostRead = NULL
    /\ portRead = NULL
    /\ hostGen = -1
    /\ portGen = -1
    /\ lastGot = << "none", NULL >>
    /\ sent = {}
    /\ lingering = 0
    /\ nTimedOut = 0
    /\ listening = FALSE

\* what a call starts from: nothing of an earlier call survives it
Fresh ==
    /\ i' = 0
    /\ nProbes' = 0
    /\ firstOk' = 0
    /\ firstFree' = 0
    /\ caught' = FALSE
    /\ ewrResult' = "none"
    /\ elapsed' = 0
    /\ lastResp' = "none"
    /\ posted' = FALSE
    /\ vcPlugin' = NULL
    /\ vcWorker' = NULL
    /\ reported' = NULL
    /\ result' = "none"

\* a probe settled with `resp`
Probed(resp) ==
    /\ nProbes' = nProbes + 1
    /\ firstOk' = IF firstOk = 0 /\ resp = "ok" THEN nProbes + 1 ELSE firstOk
    /\ firstFree' = IF firstFree = 0 /\ resp # "ok" THEN nProbes + 1 ELSE firstFree
    /\ lastResp' = resp

\* the installed plugin is updated, removed or damaged between two calls
UpdatePlugin(v) ==
    /\ pc = "idle"
    /\ v # manifest
    /\ manifest' = v
    /\ UNCHANGED << op, pc, i, nProbes, firstOk, firstFree, caught, ewrResult,
                    timeoutMs, elapsed, lastResp, hasToolName, hasCwd,
                    hasTranscript, posted, vcPlugin, vcWorker, reported, result >>
    /\ Env("none", {})

\* the caller has taken the result
Return ==
    /\ pc = "done"
    /\ op' = "idle"
    /\ pc' = "idle"
    /\ Fresh
    /\ timeoutMs' = 0
    /\ hasToolName' = FALSE
    /\ hasCwd' = FALSE
    /\ hasTranscript' = FALSE
    /\ UNCHANGED manifest
    /\ EnvFresh("none", {})

(***************************************************************************)
(* ensureWorkerRunning  (worker-utils.ts 104-188)                          *)
(***************************************************************************)
CallEnsureWorkerRunning ==
    /\ pc = "idle"
    /\ op' = "ensureWorkerRunning"
    /\ pc' = "ewr_loop"
    /\ Fresh
    /\ UNCHANGED << manifest, timeoutMs, hasToolName, hasCwd, hasTranscript >>
    /\ EnvFresh("none", {})

\* ensureWorkerRunning returns (or raises) r: to summarizeHandler when it is the
\* one awaiting it, to the outside otherwise
EnsureReturns(r) ==
    /\ ewrResult' = r
    /\ IF op = "summarizeHandler"
         THEN /\ pc' = IF r = "raised" THEN "done" ELSE "sum_ensured"
              /\ result' = IF r = "raised" THEN "raised" ELSE result
         ELSE /\ pc' = "done"
              /\ result' = r

\* what becomes of an error thrown inside the loop body: the catch block logs it
\* and control falls through to the sleep
ensureOnThrow_rethrow == "raise"

ensureOnThrow == "retry"

\* an iteration that did not return ends: sleep pollInterval, i++
EnsureNextAttempt(thrown) ==
    IF thrown /\ ensureOnThrow = "raise"
      THEN /\ EnsureReturns("raised")
           /\ UNCHANGED << i, caught >>
      ELSE /\ i' = i + 1
           /\ caught' = (caught \/ thrown)
           /\ pc' = "ewr_loop"
           /\ UNCHANGED << ewrResult, result >>

\* the for condition; past the loop getWorkerUrl is called outside the try block,
\* so an error of its settings read would leave ensureWorkerRunning; then
\* logger.warn and return false
EnsureLoop ==
    /\ pc = "ewr_loop"
    /\ IF i < maxRetries
         THEN /\ pc' = "ewr_probe"
              /\ UNCHANGED << ewrResult, result >>
         ELSE \E read \in SettingsReadOutcomes :
                 EnsureReturns(IF read = "throw" THEN "raised" ELSE "false")
    /\ UNCHANGED << op, manifest, i, nProbes, firstOk, firstFree, caught, timeoutMs,
                    elapsed, lastResp, hasToolName, hasCwd, hasTranscript, posted,
                    vcPlugin, vcWorker, reported >>
    /\ Env("url", IF i < maxRetries THEN {Req("/api/readiness", WorkerUrl)} ELSE {})

\* isWorkerHealthy: fetch(/api/readiness) settles; on response.ok checkWorkerVersion
\* starts with getPluginVersion (readFileSync + JSON.parse throw on a bad manifest)
\* and issues fetch(/api/version)
isWorkerHealthy(resp, took) ==
    /\ pc = "ewr_probe"
    /\ Probed(resp)
    /\ IF resp = "ok"
         THEN IF manifest = MISSING
                THEN EnsureNextAttempt(TRUE)
                ELSE /\ pc' = "ewr_version"
                     /\ UNCHANGED << i, caught, ewrResult, result >>
         ELSE EnsureNextAttempt(resp = "reject")
    /\ elapsed' = EnsureClock(elapsed + took
                                 + IF pc' = "ewr_loop" THEN pollInterval ELSE 0)
    /\ UNCHANGED << op, manifest, timeoutMs, hasToolName, hasCwd,
                    hasTranscript, posted, vcPlugin, vcWorker, reported >>
    /\ IF resp = "ok" /\ manifest # MISSING
         THEN Env("url", {Req("/api/version", WorkerUrl)})
         ELSE Env("none", {})

\* what checkWorkerVersion does when pluginVersion !== workerVersion: it logs
onVersionMismatch_restart == "restart"

onVersionMismatch == "log"

\* getWorkerVersion: fetch(/api/version) settles; it throws on a rejected fetch, on
\* !response.ok and on a body that is not JSON.  Otherwise checkWorkerVersion
\* compares, logs, and ensureWorkerRunning returns true
checkWorkerVersion(resp, body, took) ==
    /\ pc = "ewr_version"
    /\ IF resp = "ok" /\ body # BADJSON
         THEN /\ reported' = body
              /\ EnsureReturns(IF body # manifest /\ onVersionMismatch = "restart"
                                 THEN "false" ELSE "true")
              /\ UNCHANGED << i, caught >>
         ELSE /\ reported' = reported
              /\ EnsureNextAttempt(TRUE)
    /\ elapsed' = EnsureClock(elapsed + took
                                 + IF pc' = "ewr_loop" THEN pollInterval ELSE 0)
    /\ UNCHANGED << op, manifest, nProbes, firstOk, firstFree, timeoutMs,
                    lastResp, hasToolName, hasCwd, hasTranscript, posted, vcPlugin,
                    vcWorker >>
    /\ IF resp = "ok" /\ body \notin {BADJSON, manifest}
            /\ onVersionMismatch = "restart"
         THEN /\ sent' = sent \cup {Req("/api/admin/shutdown", WorkerUrl)}
              /\ cachedHost' = NULL /\ cachedPort' = NULL
              /\ UNCHANGED << envUrl, cfgHost, cfgPort, cfgGen, hostRead, portRead,
                              hostGen, portGen, lastGot, lingering, nTimedOut,
                              listening >>
         ELSE Env("none", {})

\* the worker accepts the connection and never answers: the fetch of
\* isWorkerHealthy or getWorkerVersion, which has no timeout, never settles, and
\* the await on it never resumes
WorkerNeverAnswers ==
    /\ pc \in {"ewr_probe", "ewr_version"}
    /\ pc' = "hung"
    /\ UNCHANGED << op, manifest, i, nProbes, firstOk, firstFree, caught, ewrResult,
                    timeoutMs, elapsed, lastResp, hasToolName, hasCwd,
                    hasTranscript, posted, vcPlugin, vcWorker, reported, result >>
    /\ Env("none", {})

(***************************************************************************)
(* The event handlers  (observation.ts 15-70, part_001 14-70)              *)
(***************************************************************************)
\* how execute ends once fetchWithTimeout has settled: !response, !response.ok,
\* success and the catch block all reach a return of {continue: true,
\* suppressOutput: true}
handlerAfterPost_noCatch(resp) ==
    IF resp = "throw" THEN "raised" ELSE "continue"

handlerAfterPost(resp) ==
    CASE resp = "throw" -> "continue"
      [] resp = "none"  -> "continue"
      [] resp = "notok" -> "continue"
      [] resp = "ok"    -> "continue"

\* observationHandler.execute up to its fetchWithTimeout: toolName is checked,
\* getWorkerUrl and the log follow, cwd is checked, the POST is issued
observationStep(toolName, cwd) ==
    IF ~toolName THEN "raise"
    ELSE IF ~cwd THEN "raise"
    ELSE "post"

\* summarizeHandler.execute between ensureWorkerRunning and its fetchWithTimeout
summarizeStep_noAvailabilityCheck(workerAvailable, transcriptPath) ==
    IF ~transcriptPath THEN "raise" ELSE "post"

summarizeStep_noValidation(workerAvailable, transcriptPath) ==
    IF ~workerAvailable THEN "continue" ELSE "post"

summarizeStep(workerAvailable, transcriptPath) ==
    IF ~workerAvailable THEN "continue"
    ELSE IF ~transcriptPath THEN "raise"
    ELSE "post"

\* a handler step that ends in `step`
HandlerDoes(step, postPc) ==
    /\ pc' = IF step = "post" THEN postPc ELSE "done"
    /\ posted' = (step = "post")
    /\ result' = CASE step = "post"     -> "none"
                   [] step = "raise"    -> "raised"
                   [] step = "continue" -> "continue"

CallObservationHandler(toolName, cwd) ==
    /\ pc = "idle"
    /\ op' = "observationHandler"
    /\ pc' = "obs_start"
    /\ Fresh
    /\ hasToolName' = toolName
    /\ hasCwd' = cwd
    /\ UNCHANGED << manifest, timeoutMs, hasTranscript >>
    /\ EnvFresh("none", {})

ObservationStart ==
    /\ pc = "obs_start"
    /\ HandlerDoes(observationStep(hasToolName, hasCwd), "obs_post")
    /\ UNCHANGED << op, manifest, i, nProbes, firstOk, firstFree, caught, ewrResult,
                    timeoutMs, elapsed, lastResp, hasToolName, hasCwd,
                    hasTranscript, vcPlugin, vcWorker, reported >>
    /\ Env(IF hasToolName THEN "url" ELSE "none",
           IF observationStep(hasToolName, hasCwd) = "post"
             THEN {Req("/api/sessions/observations", WorkerUrl)} ELSE {})

ObservationPosted(resp) ==
    /\ pc = "obs_post"
    /\ lastResp' = resp
    /\ pc' = "done"
    /\ result' = handlerAfterPost(resp)
    /\ UNCHANGED << op, manifest, i, nProbes, firstOk, firstFree, caught, ewrResult,
                    timeoutMs, elapsed, hasToolName, hasCwd, hasTranscript, posted,
                    vcPlugin, vcWorker, reported >>
    /\ Env("none", {})

\* execute starts by awaiting ensureWorkerRunning
CallSummarizeHandler(transcriptPath) ==
    /\ pc = "idle"
    /\ op' = "summarizeHandler"
    /\ pc' = "ewr_loop"
    /\ Fresh
    /\ hasTranscript' = transcriptPath
    /\ UNCHANGED << manifest, timeoutMs, hasToolName, hasCwd >>
    /\ EnvFresh("none", {})

\* ensureWorkerRunning has returned workerAvailable; extractLastMessage and
\* getWorkerUrl precede the POST
SummarizeEnsured ==
    /\ pc = "sum_ensured"
    /\ HandlerDoes(summarizeStep(ewrResult = "true", hasTranscript), "sum_post")
    /\ UNCHANGED << op, manifest, i, nProbes, firstOk, firstFree, caught, ewrResult,
                    timeoutMs, elapsed, lastResp, hasToolName, hasCwd,
                    hasTranscript, vcPlugin, vcWorker, reported >>
    /\ IF summarizeStep(ewrResult = "true", hasTranscript) = "post"
         THEN Env("url", {Req("/api/sessions/summarize", WorkerUrl)})
         ELSE Env("none", {})

SummarizePosted(resp) ==
    /\ pc = "sum_post"
    /\ lastResp' = resp
    /\ pc' = "done"
    /\ result' = handlerAfterPost(resp)
    /\ UNCHANGED << op, manifest, i, nProbes, firstOk, firstFree, caught, ewrResult,
                    timeoutMs, elapsed, hasToolName, hasCwd, hasTranscript, posted,
                    vcPlugin, vcWorker, reported >>
    /\ Env("none", {})

(***************************************************************************)
(* waitForHealth, waitForPortFree  (part_000 24-61)                        *)
(***************************************************************************)
\* while (Date.now() - start < timeoutMs)
withinDeadline_oneSleepShort(el, timeout) == el + WaitPollMs < timeout

withinDeadline(el, timeout) == el < timeout

\* isPortInUse: response?.ok ?? false, on GET /api/health
isPortInUse_anyResponse(resp) == resp # "none"

isPortInUse(resp) == resp = "ok"

CallWaitForHealth(timeout) ==
    /\ pc = "idle"
    /\ op' = "waitForHealth"
    /\ pc' = "wfh_loop"
    /\ Fresh
    /\ timeoutMs' = timeout
    /\ UNCHANGED << manifest, hasToolName, hasCwd, hasTranscript >>
    /\ EnvFresh("host", {})

\* the while condition; a true one issues fetchWithTimeout(/api/readiness)
WaitForHealthLoop ==
    /\ pc = "wfh_loop"
    /\ IF withinDeadline(elapsed, timeoutMs)
         THEN pc' = "wfh_probe" /\ result' = result
         ELSE pc' = "done" /\ result' = "false"
    /\ UNCHANGED << op, manifest, i, nProbes, firstOk, firstFree, caught, ewrResult,
                    timeoutMs, elapsed, lastResp, hasToolName, hasCwd,
                    hasTranscript, posted, vcPlugin, vcWorker, reported >>
    /\ Env("none", IF withinDeadline(elapsed, timeoutMs)
                      THEN {Req("/api/readiness", HostPortUrl)} ELSE {})

\* the probe settles with resp after `took` ms; unless response?.ok, the loop
\* sleeps `slept` ms
WaitForHealthProbe(resp, took, slept) ==
    /\ pc = "wfh_probe"
    /\ Probed(resp)
    /\ IF resp = "ok"
         THEN /\ pc' = "done"
              /\ result' = "true"
              /\ elapsed' = elapsed + took
         ELSE /\ pc' = "wfh_loop"
              /\ result' = result
              /\ elapsed' = elapsed + took + slept
    /\ UNCHANGED << op, manifest, i, caught, ewrResult, timeoutMs, hasToolName,
                    hasCwd, hasTranscript, posted, vcPlugin, vcWorker, reported >>
    /\ AfterRace(RaceOutcome(resp, took), listening)

CallWaitForPortFree(timeout) ==
    /\ pc = "idle"
    /\ op' = "waitForPortFree"
    /\ pc' = "wpf_loop"
    /\ Fresh
    /\ timeoutMs' = timeout
    /\ UNCHANGED << manifest, hasToolName, hasCwd, hasTranscript >>
    /\ EnvFresh("none", {})

\* the while condition; a true one calls isPortInUse, which issues
\* fetchWithTimeout(/api/health)
WaitForPortFreeLoop ==
    /\ pc = "wpf_loop"
    /\ IF withinDeadline(elapsed, timeoutMs)
         THEN pc' = "wpf_probe" /\ result' = result
         ELSE pc' = "done" /\ result' = "false"
    /\ UNCHANGED << op, manifest, i, nProbes, firstOk, firstFree, caught, ewrResult,
                    timeoutMs, elapsed, lastResp, hasToolName, hasCwd,
                    hasTranscript, posted, vcPlugin, vcWorker, reported >>
    /\ IF withinDeadline(elapsed, timeoutMs)
         THEN Env("host", {Req("/api/health", HostPortUrl)})
         ELSE Env("none", {})

\* stillListening: the previous worker process still holds the port when the
\* probe settles; on a released port nothing answers
WaitForPortFreeProbe(resp, took, slept, stillListening) ==
    /\ pc = "wpf_probe"
    /\ ~stillListening => resp = "none"
    /\ Probed(resp)
    /\ IF ~isPortInUse(resp)
         THEN /\ pc' = "done"
              /\ result' = "true"
              /\ elapsed' = elapsed + took
         ELSE /\ pc' = "wpf_loop"
              /\ result' = result
              /\ elapsed' = elapsed + took + slept
    /\ UNCHANGED << op, manifest, i, caught, ewrResult, timeoutMs, hasToolName,
                    hasCwd, hasTranscript, posted, vcPlugin, vcWorker, reported >>
    /\ AfterRace(RaceOutcome(resp, took), stillListening)

\* a request abandoned by a timeout settles, or its connection is closed
LingeringSettles ==
    /\ lingering > 0
    /\ lingering' = lingering - 1
    /\ UNCHANGED << op, pc, manifest, i, nProbes, firstOk, firstFree, caught,
                    ewrResult, timeoutMs, elapsed, lastResp, hasToolName, hasCwd,
                    hasTranscript, posted, vcPlugin, vcWorker, reported, result >>
    /\ Resolves("none")
    /\ UNCHANGED << envUrl, cfgHost, cfgPort, cfgGen, lastGot, sent, nTimedOut,
                    listening >>

(***************************************************************************)
(* httpShutdown  (part_000 68-101)                                         *)
(***************************************************************************)
\* how Promise.race([fetch(.., {method: 'POST'}), timeoutPromise]) ends: the fetch
\* settles first (a response, ECONNREFUSED, another rejection) or the timer does
ShutdownOutcomes == {"ok", "notok", "refused", "reject", "timeout"}

httpShutdownResult_rethrow(outcome) ==
    CASE outcome = "timeout" -> "false"
      [] outcome = "notok"   -> "false"
      [] outcome = "ok"      -> "true"
      [] outcome = "refused" -> "false"
      [] outcome = "reject"  -> "raised"

httpShutdownResult(outcome) ==
    CASE outcome = "timeout" -> "false"
      [] outcome = "notok"   -> "false"
      [] outcome = "ok"      -> "true"
      [] outcome = "refused" -> "false"
      [] outcome = "reject"  -> "false"

CallHttpShutdown ==
    /\ pc = "idle"
    /\ op' = "httpShutdown"
    /\ pc' = "hs_race"
    /\ Fresh
    /\ UNCHANGED << manifest, timeoutMs, hasToolName, hasCwd, hasTranscript >>
    /\ EnvFresh("host", {Req("/api/admin/shutdown", HostPortUrl)})

HttpShutdownSettles(outcome) ==
    /\ pc = "hs_race"
    /\ lastResp' = outcome
    /\ elapsed' = IF outcome = "timeout" THEN FETCH_TIMEOUT_MS ELSE 0
    /\ pc' = "done"
    /\ result' = httpShutdownResult(outcome)
    /\ UNCHANGED << op, manifest, i, nProbes, firstOk, firstFree, caught, ewrResult,
                    timeoutMs, hasToolName, hasCwd, hasTranscript, posted,
                    vcPlugin, vcWorker, reported >>
    /\ AfterRace(outcome, listening)

(***************************************************************************)
(* checkVersionMatch  (part_000 107-155)                                   *)
(***************************************************************************)
\* getRunningWorkerVersion: null unless response?.ok and the body parses; then
\* data.version, whatever it is
getRunningWorkerVersion(resp, body) ==
    IF resp # "ok" THEN NULL
    ELSE IF body = BADJSON THEN NULL
    ELSE body

\* matches of the result: true when !workerVersion
versionMatches(pluginVersion, workerVersion) ==
    IF ~Truthy(workerVersion) THEN TRUE ELSE pluginVersion = workerVersion

CallCheckVersionMatch ==
    /\ pc = "idle"
    /\ op' = "checkVersionMatch"
    /\ pc' = "cvm_start"
    /\ Fresh
    /\ UNCHANGED << manifest, timeoutMs, hasToolName, hasCwd, hasTranscript >>
    /\ EnvFresh("none", {})

\* getInstalledPluginVersion throws on a manifest it cannot read or parse;
\* otherwise getRunningWorkerVersion issues fetchWithTimeout(/api/version)
getInstalledPluginVersion ==
    /\ pc = "cvm_start"
    /\ IF manifest = MISSING
         THEN pc' = "done" /\ result' = "raised" /\ vcPlugin' = vcPlugin
         ELSE pc' = "cvm_fetch" /\ result' = result /\ vcPlugin' = manifest
    /\ UNCHANGED << op, manifest, i, nProbes, firstOk, firstFree, caught, ewrResult,
                    timeoutMs, elapsed, lastResp, hasToolName, hasCwd,
                    hasTranscript, posted, vcWorker, reported >>
    /\ IF manifest = MISSING
         THEN Env("none", {})
         ELSE Env("host", {Req("/api/version", HostPortUrl)})

CheckVersionMatchSettles(resp, body) ==
    /\ pc = "cvm_fetch"
    /\ lastResp' = resp
    /\ reported' = IF resp = "ok" THEN body ELSE NULL
    /\ vcWorker' = getRunningWorkerVersion(resp, body)
    /\ result' = IF versionMatches(vcPlugin, vcWorker') THEN "true" ELSE "false"
    /\ pc' = "done"
    /\ UNCHANGED << op, manifest, i, nProbes, firstOk, firstFree, caught, ewrResult,
                    timeoutMs, elapsed, hasToolName, hasCwd, hasTranscript, posted,
                    vcPlugin >>
    /\ Env("none", {})

(***************************************************************************)
(* The resolver called from outside, and the settings file  (worker-utils  *)
(* 23-98).  These calls are synchronous: one step each.                    *)
(***************************************************************************)
\* settings.json is rewritten (nobody clears the cache on its own account)
UpdateSettings(h, p) ==
    /\ pc = "idle"
    /\ cfgGen < MaxSettingsUpdates
    /\ << h, p >> # << cfgHost, cfgPort >>
    /\ cfgHost' = h
    /\ cfgPort' = p
    /\ cfgGen' = cfgGen + 1
    /\ KeepsHost /\ KeepsPort
    /\ UNCHANGED << envUrl, lastGot >>
    /\ UNCHANGED callVars

ExtGetWorkerHost ==
    /\ pc = "idle"
    /\ ReadsHost /\ KeepsPort
    /\ lastGot' = << "host", cachedHost' >>
    /\ UNCHANGED << envUrl, cfgHost, cfgPort, cfgGen >>
    /\ UNCHANGED callVars

ExtGetWorkerPort ==
    /\ pc = "idle"
    /\ ReadsPort /\ KeepsHost
    /\ lastGot' = << "port", cachedPort' >>
    /\ UNCHANGED << envUrl, cfgHost, cfgPort, cfgGen >>
    /\ UNCHANGED callVars

ExtGetWorkerUrl ==
    /\ pc = "idle"
    /\ Resolves("url")
    /\ lastGot' = << "url", WorkerUrl >>
    /\ UNCHANGED << envUrl, cfgHost, cfgPort, cfgGen >>
    /\ UNCHANGED callVars

\* clearPortCache as it would be with the host left in place
clearPortCache_portOnly ==
    /\ pc = "idle"
    /\ cachedPort' = NULL
    /\ cachedHost' = cachedHost
    /\ hostGen' = hostGen
    /\ portGen' = -1
    /\ hostRead' = NULL
    /\ portRead' = NULL
    /\ lastGot' = << "none", NULL >>
    /\ UNCHANGED << envUrl, cfgHost, cfgPort, cfgGen >>
    /\ UNCHANGED callVars

clearPortCache ==
    /\ pc = "idle"
    /\ cachedPort' = NULL
    /\ cachedHost' = NULL
    /\ hostGen' = -1
    /\ portGen' = -1
    /\ hostRead' = NULL
    /\ portRead' = NULL
    /\ lastGot' = << "none", NULL >>
    /\ UNCHANGED << envUrl, cfgHost, cfgPort, cfgGen >>
    /\ UNCHANGED callVars

NextEndpoint ==
    \/ \E h \in Hosts, p \in PortStrings : UpdateSettings(h, p)
    \/ ExtGetWorkerHost
    \/ ExtGetWorkerPort
    \/ ExtGetWorkerUrl
    \/ clearPortCache

\* the resolver alone, under settings that change
SpecEndpoint == Init /\ [][NextEndpoint]_vars

Next ==
    \/ \E v \in Versions \cup {MISSING} : UpdatePlugin(v)
    \/ Return
    \/ CallEnsureWorkerRunning
    \/ EnsureLoop
    \/ \E resp \in FetchOutcomes, took \in PlainFetchTimes : isWorkerHealthy(resp, took)
    \/ \E resp \in FetchOutcomes, body \in Bodies, took \in PlainFetchTimes :
         checkWorkerVersion(resp, body, took)
    \/ WorkerNeverAnswers
    \/ \E toolName \in BOOLEAN, cwd \in BOOLEAN : CallObservationHandler(toolName, cwd)
    \/ ObservationStart
    \/ \E resp \in FetchWithTimeoutOutcomes(FALSE) : ObservationPosted(resp)
    \/ \E transcriptPath \in BOOLEAN : CallSummarizeHandler(transcriptPath)
    \/ SummarizeEnsured
    \/ \E resp \in FetchWithTimeoutOutcomes(FALSE) : SummarizePosted(resp)
    \/ \E timeout \in Timeouts : CallWaitForHealth(timeout)
    \/ WaitForHealthLoop
    \/ \E resp \in FetchWithTimeoutOutcomes(TRUE) :
         \E took \in FetchTimes(resp), slept \in SleepTimes :
            WaitForHealthProbe(resp, took, slept)
    \/ \E timeout \in Timeouts : CallWaitForPortFree(timeout)
    \/ WaitForPortFreeLoop
    \/ \E resp \in FetchWithTimeoutOutcomes(TRUE), stillListening \in BOOLEAN :
         \E took \in FetchTimes(resp), slept \in SleepTimes :
            WaitForPortFreeProbe(resp, took, slept, stillListening)
    \/ LingeringSettles
    \/ CallHttpShutdown
    \/ \E outcome \in ShutdownOutcomes : HttpShutdownSettles(outcome)
    \/ CallCheckVersionMatch
    \/ getInstalledPluginVersion
    \/ \E resp \in FetchWithTimeoutOutcomes(TRUE), body \in Bodies :
         CheckVersionMatchSettles(resp, body)

Spec == Init /\ [][Next]_vars
(***************************************************************************)
(* Properties.                                                             *)
(***************************************************************************)
InEnsure == op \in {"ensureWorkerRunning", "summarizeHandler"}
Done == pc = "done"

\* C1: ensureWorkerRunning returns true at attempt N exactly when the readiness
\* probe first succeeds at attempt N, probes no more after that success, and
\* returns false exactly when no probe succeeded
C1_TrueAtFirstReadinessSuccess ==
    InEnsure =>
        /\ firstOk > 0 => nProbes = firstOk
        /\ ewrResult = "true" => firstOk = i + 1
        /\ ewrResult # "none" => (ewrResult = "true" <=> firstOk > 0)
        /\ ewrResult # "none" => (ewrResult = "false" <=> firstOk = 0)

C3_SummarizeDegradesWhenUnavailable ==
    (op = "summarizeHandler" /\ ewrResult = "false") =>
        /\ ~posted
        /\ pc \in {"sum_ensured", "done"}
        /\ result \in {"none", "continue"}
        /\ Done => result = "continue"

\* C3 witness: the handler has ended after ensureWorkerRunning returned false
C3_Witness ==
    /\ op = "summarizeHandler" /\ ewrResult = "false" /\ Done
    /\ result = "continue" /\ nProbes = maxRetries

\* C4: with the required fields present, a handler that has issued its business
\* request ends with {continue: true, suppressOutput: true} whatever became of
\* the request: no response, a non-success status, a success status or a thrown
\* error; and observationHandler with both fields present always issues it
C4_HandlersNeverRaiseOnWorkerOutcome ==
    /\ (op = "observationHandler" /\ hasToolName /\ hasCwd /\ Done) => posted
    /\ posted => (hasTranscript \/ (hasToolName /\ hasCwd))
    /\ (posted /\ Done) =>
           /\ lastResp \in FetchWithTimeoutOutcomes(FALSE)
           /\ result = "continue"

\* C4 witness: a handler whose business request threw has ended
C4_Witness ==
    /\ op \in {"observationHandler", "summarizeHandler"}
    /\ posted /\ Done /\ lastResp = "throw" /\ result = "continue"

MissingField ==
    \/ op = "observationHandler" /\ (~hasToolName \/ ~hasCwd)
    \/ op = "summarizeHandler" /\ ~hasTranscript

\* C5 as stated: a handler called with a required field missing ends by raising,
\* whatever the state of the worker
C5_MissingFieldAlwaysRaises ==
    (MissingField /\ Done) => result = "raised"

\* C5 amended: observationHandler raises on a missing toolName or cwd whatever the
\* worker does; summarizeHandler raises on a missing transcriptPath when
\* ensureWorkerRunning returned true, and returns {continue: true,
\* suppressOutput: true} without validating when it returned false; neither
\* posts anything
C5_MissingFieldRaisesOnceWorkerAvailable ==
    MissingField =>
        /\ ~posted
        /\ (op = "observationHandler" /\ Done) => result = "raised"
        /\ (op = "summarizeHandler" /\ Done /\ ewrResult = "true") => result = "raised"
        /\ (op = "summarizeHandler" /\ Done /\ ewrResult = "false") => result = "continue"

\* C5 witness: summarizeHandler raised for a missing transcriptPath with the
\* worker available
C5_Witness ==
    /\ op = "summarizeHandler" /\ ~hasTranscript /\ Done
    /\ ewrResult = "true" /\ result = "raised"

\* C6 as stated: a handler posts its business request only after a readiness probe
\* succeeded earlier in the same invocation
C6_PostOnlyAfterReadiness ==
    posted => firstOk > 0

\* C6 amended: summarizeHandler posts only after a readiness probe succeeded in the
\* same invocation and ensureWorkerRunning returned true; observationHandler
\* probes nothing before it posts
C6_SummarizePostsOnlyAfterReadiness ==
    /\ (op = "summarizeHandler" /\ posted) => (firstOk > 0 /\ ewrResult = "true")
    /\ op = "observationHandler" => nProbes = 0

\* C6 witness: summarizeHandler has its POST in flight
C6_Witness ==
    op = "summarizeHandler" /\ posted /\ pc = "sum_post"

\* the worker's version was obtained: a success response whose body parses and
\* holds a version string
WorkerVersionObtained == lastResp = "ok" /\ reported \in Versions

\* C7: checkVersionMatch returns matches = false exactly when both versions were
\* obtained and differ as strings, and matches = true in every other case that
\* is not an error
C7_MismatchIffBothObtainedAndUnequal ==
    (op = "checkVersionMatch" /\ Done /\ result # "raised") =>
        (result = "false" <=> (WorkerVersionObtained /\ reported # vcPlugin))

\* C8: waitForHealth returns true at the first readiness probe answered ok,
\* returns false only with elapsed >= timeoutMs, and returns false when no
\* probe was answered ok
C8_WaitForHealth ==
    op = "waitForHealth" =>
        /\ firstOk > 0 => (Done /\ result = "true" /\ nProbes = firstOk)
        /\ result = "true" => (firstOk > 0 /\ lastResp = "ok")
        /\ result = "false" => (elapsed >= timeoutMs /\ firstOk = 0)
        /\ (Done /\ firstOk = 0) => result = "false"
        /\ result \in {"none", "true", "false"}

\* C8 witness: false returned past the deadline after several failed probes
C8_Witness ==
    /\ op = "waitForHealth" /\ Done /\ result = "false"
    /\ nProbes > 1 /\ elapsed >= timeoutMs

\* C9: waitForPortFree returns true at the first probe of /api/health that is not
\* answered ok, and returns false exactly when every probe it made was
\* answered ok
C9_WaitForPortFree ==
    op = "waitForPortFree" =>
        /\ firstFree > 0 => (Done /\ result = "true" /\ nProbes = firstFree)
        /\ result = "true" => (firstFree > 0 /\ lastResp # "ok")
        /\ Done => (result = "false" <=> firstFree = 0)
        /\ result \in {"none", "true", "false"}

\* C9 witness: true returned at a probe answered with a non-success status, after
\* probes that were answered ok
C9_Witness ==
    /\ op = "waitForPortFree" /\ Done /\ result = "true"
    /\ nProbes > 1 /\ lastResp = "notok"

\* C10: httpShutdown returns true exactly when the POST is answered ok before the
\* timer fires, and returns false, raising nothing, on a timeout, a non-success
\* status, a refused connection and any other rejection
C10_HttpShutdown ==
    (op = "httpShutdown" /\ Done) =>
        /\ result \in {"true", "false"}
        /\ result = "true" <=> lastResp = "ok"

\* C10 witness: false returned for a rejection other than a refused connection
C10_Witness ==
    op = "httpShutdown" /\ Done /\ lastResp = "reject" /\ result = "false"
\* C11: a get returns the value read at the first get since the last
\* clearPortCache (or since the start), whatever the settings have become; after
\* clearPortCache nothing is cached, so the next get reads the settings again;
\* nothing but clearPortCache empties the cache
C11_CacheHoldsFirstReadUntilCleared ==
    /\ hostRead # NULL => cachedHost = hostRead
    /\ hostRead = NULL => cachedHost = NULL
    /\ portRead # NULL => cachedPort = parseInt(portRead)
    /\ portRead = NULL => cachedPort = NULL
    /\ lastGot[1] = "host" => lastGot[2] = hostRead
    /\ lastGot[1] = "port" => lastGot[2] = parseInt(portRead)

\* C11 witness: getWorkerHost has returned the memoized host after the settings
\* changed to another one, and after an earlier clearPortCache made it read anew
C11_Witness ==
    /\ lastGot[1] = "host" /\ lastGot[2] # cfgHost
    /\ hostGen > 0 /\ hostGen < cfgGen

\* C19: with a port setting that is no integer, getWorkerPort returns no NaN and
\* caches none
C19_UnparseablePortNeverReturnedOrCached ==
    /\ cachedPort # NaN
    /\ lastGot # << "port", NaN >>

\* C20: the host and the port that are in the cache together were read from the
\* same version of the settings
C20_CachedHostAndPortOfOneVersion ==
    (cachedHost # NULL /\ cachedPort # NULL) => hostGen = portGen
\* C12: with the URL override set, every request this code issues goes to the
\* override, those of isPortInUse, waitForHealth, getRunningWorkerVersion and
\* httpShutdown included
C12_OverrideTargetsEveryRequest ==
    envOverrides(envUrl) => \A r \in sent : r.base = Override(envUrl)
LoopCall == op \in {"ensureWorkerRunning", "summarizeHandler", "waitForHealth",
                    "waitForPortFree"}

\* C13: a call of ensureWorkerRunning, waitForHealth or waitForPortFree returns
\* whatever the worker does: as long as it has not ended it has a next step,
\* also with a worker that accepts the connection and never answers
C13_LoopCallsAlwaysProceed ==
    (LoopCall /\ ~Done) => ENABLED Next

\* C14: in the three polling loops no probe is started once the time elapsed since
\* the start has reached the deadline (3000 ms for ensureWorkerRunning)
C14_NoProbeStartedPastDeadline ==
    /\ pc = "ewr_probe" => elapsed < EnsureBudgetMs
    /\ pc = "wfh_probe" => elapsed < timeoutMs
    /\ pc = "wpf_probe" => elapsed < timeoutMs
\* C15: waitForPortFree returns true only when the previous worker process no
\* longer listens on the port
C15_TrueOnlyWhenPortReleased ==
    (op = "waitForPortFree" /\ result = "true") => ~listening

InPollingLoop == op \in {"waitForHealth", "waitForPortFree"}

\* probe requests of the running loop that are in flight: the one the loop
\* awaits and those a per-call timeout abandoned
InFlight == lingering + IF pc \in {"wfh_probe", "wpf_probe"} THEN 1 ELSE 0

C18_MismatchHasNoEffect ==
    /\ [](InEnsure =>
            /\ reported # NULL => ewrResult = "true"
            /\ \A r \in sent : r.path # "/api/admin/shutdown")
    /\ [][pc = "ewr_version" => UNCHANGED << cachedHost, cachedPort >>]_vars

\* C18 witness: ensureWorkerRunning returned true with a worker version that differs
\* from the installed one
C18_Witness ==
    /\ op = "ensureWorkerRunning" /\ Done /\ result = "true"
    /\ reported \in Versions /\ manifest \in Versions /\ reported # manifest
====
